---- MODULE Spec2Model ----
(***************************************************************************)
(* Model of deno_tag (code.ts): denoTag(text, options) scans a text for    *)
(* <deno> tags, runs the run/bundle backend for each tag and replaces the  *)
(* tag lines by the (indented) output.                                     *)
(*                                                                         *)
(* A JS string is a sequence of one-character strings.  A JS Map is the    *)
(* sequence of its <<key, value>> entries in insertion order.              *)
(***************************************************************************)
EXTENDS Integers, Sequences, FiniteSets, TLC

(***************************************************************************)
(* String primitives of the JS runtime, as code.ts uses them.              *)
(***************************************************************************)

\* s.slice(a) for 0 <= a: the suffix from 0-based index a
Drop(s, a) ==
  IF a >= Len(s) THEN <<>> ELSE SubSeq(s, a + 1, Len(s))

\* s.slice(0, b) for 0 <= b: the prefix of length b
Take(s, b) ==
  IF b <= 0 THEN <<>> ELSE SubSeq(s, 1, IF b > Len(s) THEN Len(s) ELSE b)

\* s.startsWith(p) at 0-based offset i
MatchAt(s, p, i) ==
  /\ i + Len(p) <= Len(s)
  /\ \A k \in 1..Len(p) : s[i + k] = p[k]

\* s.indexOf(p): 0-based index of the first occurrence, -1 when there is none
IndexOf(s, p) ==
  LET hits == {i \in 0..Len(s) : MatchAt(s, p, i)}
  IN  IF hits = {} THEN -1 ELSE CHOOSE i \in hits : \A j \in hits : i <= j

\* s.includes(p)
Includes(s, p) == IndexOf(s, p) # -1

\* s.endsWith(p)
EndsWith(s, p) == Len(s) >= Len(p) /\ MatchAt(s, p, Len(s) - Len(p))

\* s.slice(a, b) with JS index normalisation (negative counts from the end)
Slice(s, a, b) ==
  LET n  == Len(s)
      lo == IF a < 0 THEN (IF n + a < 0 THEN 0 ELSE n + a)
            ELSE (IF a > n THEN n ELSE a)
      hi == IF b < 0 THEN (IF n + b < 0 THEN 0 ELSE n + b)
            ELSE (IF b > n THEN n ELSE b)
  IN  IF hi <= lo THEN <<>> ELSE SubSeq(s, lo + 1, hi)

\* s.split(sep) for a non-empty separator: left to right, non-overlapping
RECURSIVE Split(_, _)
Split(s, sep) ==
  LET i == IndexOf(s, sep)
  IN  IF i = -1 THEN <<s>>
      ELSE <<Take(s, i)>> \o Split(Drop(s, i + Len(sep)), sep)

\* arr.join(sep)
RECURSIVE Join(_, _)
Join(arr, sep) ==
  IF Len(arr) = 0 THEN <<>>
  ELSE IF Len(arr) = 1 THEN arr[1]
  ELSE arr[1] \o sep \o Join(Tail(arr), sep)

\* The white space String.prototype.trimLeft removes (the part the model uses)
WhiteSpace == {" ", "\t"}

\* line.length - line.trimLeft().length
RECURSIVE LeadingWhiteSpace(_)
LeadingWhiteSpace(line) ==
  IF Len(line) = 0 \/ Head(line) \notin WhiteSpace THEN 0
  ELSE 1 + LeadingWhiteSpace(Tail(line))

\* n copies of the pad character " "
RECURSIVE Spaces(_)
Spaces(n) == IF n <= 0 THEN <<>> ELSE <<" ">> \o Spaces(n - 1)

\* line.padStart(target, " ")
PadStart(line, target) == Spaces(target - Len(line)) \o line

NL == <<"\n">>

(***************************************************************************)
(* Literals of code.ts                                                     *)
(***************************************************************************)
OpenMarker  == <<"<", "d", "e", "n", "o">>            \* "<deno"
SelfClose   == <<"/", ">">>                           \* "/>"
CloseMarker == <<"<", "/", "d", "e", "n", "o", ">">>  \* "</deno>"
GT          == <<">">>
SP          == <<" ">>
EQ          == <<"=">>
QUOTE       == <<"\"">>
\* Mutant: the value of a boolean attribute without the quotes
TrueValue_unquoted == <<"t", "r", "u", "e">>
TrueValue   == <<"\"", "t", "r", "u", "e", "\"">>      \* '"true"'
RunAttr     == <<"r", "u", "n">>
BundleAttr  == <<"b", "u", "n", "d", "l", "e">>

(***************************************************************************)
(* JS Map as the sequence of its entries: set() overwrites the value of an *)
(* existing key in place and appends a new key at the end.                 *)
(***************************************************************************)
MapHas(m, k) == \E i \in 1..Len(m) : m[i][1] = k

MapSet(m, k, v) ==
  IF MapHas(m, k)
  THEN [i \in 1..Len(m) |-> IF m[i][1] = k THEN <<k, v>> ELSE m[i]]
  ELSE Append(m, <<k, v>>)

\* new Map(entries)
RECURSIVE NewMap(_)
NewMap(entries) ==
  IF Len(entries) = 0 THEN <<>>
  ELSE LET e == entries[Len(entries)]
       IN  MapSet(NewMap(SubSeq(entries, 1, Len(entries) - 1)), e[1], e[2])

(***************************************************************************)
(* parseDenoTagArgs: the attributes of every <deno tag of one joined line  *)
(***************************************************************************)

\* key is `string | null`; a null or empty key is falsy
NoKey == [set |-> FALSE, str |-> <<>>]
SomeKey(k) == [set |-> TRUE, str |-> k]
Truthy(key) == key.set /\ key.str # <<>>

\* State of the token loop before its first iteration
TokenInit == [tagAttributes |-> <<>>, key |-> NoKey, partialValue |-> <<>>]

\* One iteration of the inner `for (let j ...)` loop on attributes[j]
TokenStep(st, tok) ==
  IF tok = <<>> \/ tok = <<"/">> THEN st
  ELSE
    LET hasEq      == Includes(tok, EQ)
        splitToken == Split(tok, EQ)
        key1       == IF hasEq THEN SomeKey(splitToken[1]) ELSE st.key
        token      == IF hasEq THEN splitToken[2] ELSE tok
        ends       == EndsWith(token, QUOTE)
        isBool     == ~ends /\ ~Truthy(key1)
        key2       == IF isBool THEN SomeKey(token) ELSE key1
        hasValue   == ends \/ isBool
        value      == IF ends THEN st.partialValue \o token ELSE TrueValue
        partial2   == IF ends THEN <<>>
                      ELSE IF isBool THEN st.partialValue
                      ELSE st.partialValue \o token
    IN  IF Truthy(key2) /\ hasValue
        THEN [tagAttributes |-> Append(st.tagAttributes, <<key2.str, value>>),
              key |-> NoKey, partialValue |-> partial2]
        ELSE [tagAttributes |-> st.tagAttributes,
              key |-> key2, partialValue |-> partial2]

\* The inner loop over all tokens
RECURSIVE TokenLoop(_, _)
TokenLoop(st, attributes) ==
  IF Len(attributes) = 0 THEN st
  ELSE TokenLoop(TokenStep(st, Head(attributes)), Tail(attributes))

\* denoTags[i].slice(0, denoTags[i].indexOf(">")).split(" ")
TagTokens(segment) == Split(Slice(segment, 0, IndexOf(segment, GT)), SP)

\* Mutant: a key still pending after the last token is added with what its
\* value holds so far
TagAttributes_flushPending(segment) ==
  LET st == TokenLoop(TokenInit, TagTokens(segment))
  IN  NewMap(IF Truthy(st.key)
             THEN Append(st.tagAttributes, <<st.key.str, st.partialValue>>)
             ELSE st.tagAttributes)

\* The Map built for one "<deno" segment
TagAttributes(segment) ==
  NewMap(TokenLoop(TokenInit, TagTokens(segment)).tagAttributes)

parseDenoTagArgs(line) ==
  LET denoTags == Split(line, OpenMarker)
  IN  [i \in 1..(Len(denoTags) - 1) |-> TagAttributes(denoTags[i + 1])]

(***************************************************************************)
(* parseDenoTag: the groups of tag lines of a text, in scan order          *)
(***************************************************************************)

\* Mutant: a tag counts only when the line starts with it
OpenedDenoTags_atLineStart(line) ==
  IF MatchAt(line, OpenMarker, LeadingWhiteSpace(line)) THEN 1 ELSE 0

\* line.split("<deno").length - 1
OpenedDenoTags(line) == Len(Split(line, OpenMarker)) - 1

\* (line.split("/>").length - 1) + (line.split("</deno>").length - 1)
ClosedTags(line) ==
  (Len(Split(line, SelfClose)) - 1) + (Len(Split(line, CloseMarker)) - 1)

\* State of the line loop before its first iteration
ScanInit == [tags |-> <<>>, isMultiLine |-> FALSE, tagLines |-> <<>>,
             lineStart |-> 0, lineStartPad |-> 0]

\* Mutant: a group is recorded with the line where the group before it began
ScanStep_staleStart(st, line, lineNumber) ==
  LET openedDenoTags == OpenedDenoTags(line)
      closedTags     == ClosedTags(line)
      hasAnOpenTag   == st.isMultiLine \/ openedDenoTags > 0
      tagLines1      == IF hasAnOpenTag THEN Append(st.tagLines, line)
                        ELSE st.tagLines
      starts         == hasAnOpenTag /\ ~st.isMultiLine
      lineStart1     == IF starts THEN lineNumber ELSE st.lineStart
      lineStartPad1  == IF starts THEN LeadingWhiteSpace(line)
                        ELSE st.lineStartPad
      closesWhatOpens ==
        (IF st.isMultiLine THEN 1 ELSE 0) + openedDenoTags = closedTags
  IN  IF hasAnOpenTag /\ closesWhatOpens
      THEN [tags |-> Append(st.tags,
                       [lineOpened |-> st.lineStart, lineClosed |-> lineNumber,
                        indent |-> lineStartPad1,
                        attrs |-> parseDenoTagArgs(Join(tagLines1, SP))]),
            isMultiLine |-> FALSE, tagLines |-> <<>>,
            lineStart |-> lineStart1, lineStartPad |-> lineStartPad1]
      ELSE [tags |-> st.tags,
            isMultiLine |-> hasAnOpenTag /\ ~closesWhatOpens,
            tagLines |-> tagLines1,
            lineStart |-> lineStart1, lineStartPad |-> lineStartPad1]

\* One iteration of the `for (let lineNumber ...)` loop
ScanStep(st, line, lineNumber) ==
  LET openedDenoTags == OpenedDenoTags(line)
      closedTags     == ClosedTags(line)
      hasAnOpenTag   == st.isMultiLine \/ openedDenoTags > 0
      tagLines1      == IF hasAnOpenTag THEN Append(st.tagLines, line)
                        ELSE st.tagLines
      starts         == hasAnOpenTag /\ ~st.isMultiLine
      lineStart1     == IF starts THEN lineNumber ELSE st.lineStart
      lineStartPad1  == IF starts THEN LeadingWhiteSpace(line)
                        ELSE st.lineStartPad
      closesWhatOpens ==
        (IF st.isMultiLine THEN 1 ELSE 0) + openedDenoTags = closedTags
  IN  IF hasAnOpenTag /\ closesWhatOpens
      THEN [tags |-> Append(st.tags,
                       [lineOpened |-> lineStart1, lineClosed |-> lineNumber,
                        indent |-> lineStartPad1,
                        attrs |-> parseDenoTagArgs(Join(tagLines1, SP))]),
            isMultiLine |-> FALSE, tagLines |-> <<>>,
            lineStart |-> lineStart1, lineStartPad |-> lineStartPad1]
      ELSE [tags |-> st.tags,
            isMultiLine |-> hasAnOpenTag /\ ~closesWhatOpens,
            tagLines |-> tagLines1,
            lineStart |-> lineStart1, lineStartPad |-> lineStartPad1]

RECURSIVE ScanLoop(_, _, _)
ScanLoop(st, lines, lineNumber) ==
  IF lineNumber >= Len(lines) THEN st
  ELSE ScanLoop(ScanStep(st, lines[lineNumber + 1], lineNumber),
                lines, lineNumber + 1)

\* Mutant: a group still open after the last line is recorded up to that line
parseDenoTag_flushAtEnd(text) ==
  LET lines == Split(text, NL)
      st    == ScanLoop(ScanInit, lines, 0)
  IN  IF st.isMultiLine
      THEN Append(st.tags,
                  [lineOpened |-> st.lineStart, lineClosed |-> Len(lines) - 1,
                   indent |-> st.lineStartPad,
                   attrs |-> parseDenoTagArgs(Join(st.tagLines, SP))])
      ELSE st.tags

\* result.tags of parseDenoTag(text): one entry per group, in insertion order
parseDenoTag(text) == ScanLoop(ScanInit, Split(text, NL), 0).tags

(***************************************************************************)
(* runDeno: the action, file and flags read from one tag's attributes      *)
(***************************************************************************)

\* Mutant: case "bundle" keeps the quotes around the file
ArgStep_bundleQuoted(st, entry) ==
  LET attr == entry[1]  value == entry[2]
  IN  IF attr = RunAttr
      THEN [st EXCEPT !.file = Slice(value, 1, -1)]
      ELSE IF attr = BundleAttr
      THEN [st EXCEPT !.action = "bundle", !.file = value]
      ELSE [st EXCEPT !.flags = Append(st.flags, attr \o EQ \o value)]

\* One iteration of `for (const [attr, value] of args.entries())`
ArgStep(st, entry) ==
  LET attr == entry[1]  value == entry[2]
  IN  IF attr = RunAttr
      THEN [st EXCEPT !.file = Slice(value, 1, -1)]
      ELSE IF attr = BundleAttr
      THEN [st EXCEPT !.action = "bundle", !.file = Slice(value, 1, -1)]
      ELSE [st EXCEPT !.flags = Append(st.flags, attr \o EQ \o value)]

RECURSIVE ArgLoop(_, _)
ArgLoop(st, entries) ==
  IF Len(entries) = 0 THEN st
  ELSE ArgLoop(ArgStep(st, Head(entries)), Tail(entries))

\* The values of action, file and flags when the switch on action is reached
RunDenoArgs(args) ==
  ArgLoop([action |-> "run", file |-> <<>>, flags |-> <<>>], args)

DENO      == <<"d", "e", "n", "o">>
RUN       == <<"r", "u", "n">>
ALLOWREAD == <<"-", "-", "a", "l", "l", "o", "w", "-", "r", "e", "a", "d">>
ALLOWRUN  == <<"-", "-", "a", "l", "l", "o", "w", "-", "r", "u", "n">>

\* cmd of the default runOptions literal
DefaultCmd == <<DENO, RUN, ALLOWREAD, ALLOWRUN>>

\* The default runOptions literal, created anew by every runDeno call
DefaultRunOptions == [cmd |-> DefaultCmd, stdout |-> "piped"]

\* [...runOptions.cmd, file, ...flags]
RunCmd(base, a) == base \o <<a.file>> \o a.flags

(***************************************************************************)
(* executeDenoTags: the contents of one group's Result                     *)
(***************************************************************************)

\* Mutant: the target length of padStart is the indent alone
PadLine_indentOnly(line, indent) == PadStart(line, indent)

\* line.padStart(lineLimits.indent + line.length, " ")
PadLine(line, indent) == PadStart(line, indent + Len(line))

\* result.join("\n").split("\n").map(pad).join("\n")
Contents(result, indent) ==
  LET outLines == Split(Join(result, NL), NL)
  IN  Join([k \in 1..Len(outLines) |-> PadLine(outLines[k], indent)], NL)

(***************************************************************************)
(* replaceTagsWithResults                                                  *)
(***************************************************************************)

\* What the body of the outer loop pushes into newLines for line i (0-based)
RECURSIVE PushedAt(_, _, _)
PushedAt(results, i, r) ==
  IF r > Len(results) THEN <<>>
  ELSE (IF results[r].from = i THEN <<results[r].contents>> ELSE <<>>)
       \o PushedAt(results, i, r + 1)

\* Mutant: the last line of a group is not taken as inside its limits
Ignored_beforeTo(results, i) ==
  \E r \in 1..Len(results) : i >= results[r].from /\ i < results[r].to

\* Mutant: the first line of a group is not taken as inside its limits
Ignored_afterFrom(results, i) ==
  \E r \in 1..Len(results) : i > results[r].from /\ i <= results[r].to

Ignored(results, i) ==
  \E r \in 1..Len(results) : i >= results[r].from /\ i <= results[r].to

RECURSIVE NewLines(_, _, _)
NewLines(lines, results, i) ==
  IF i >= Len(lines) THEN <<>>
  ELSE PushedAt(results, i, 1)
       \o (IF Ignored(results, i) THEN <<>> ELSE <<lines[i + 1]>>)
       \o NewLines(lines, results, i + 1)

\* Mutant: the new lines are merged with a space instead of a line break
replaceTagsWithResults_joinSpace(original, results) ==
  Join(NewLines(Split(original, NL), results, 0), SP)

replaceTagsWithResults(original, results) ==
  Join(NewLines(Split(original, NL), results, 0), NL)

(***************************************************************************)
(* Inputs: texts made of blocks of lines, backend outputs, run options     *)
(***************************************************************************)

\* a line without any tag
PlainLine ==
  <<"<", "p", ">", "x", "<", "/", "p", ">">>

\* an indented line without any tag
IndentedLine ==
  <<" ", " ", "y">>

\* an empty line
EmptyLine ==
  <<>>

\* the tag of the first test, as a whole line
RunLine ==
  <<"<", "d", "e", "n", "o", " ", "r", "u", "n", "=", "\"", "x", ".", "t",
    "s", "\"", " ", "/", ">">>

\* a valued and a boolean attribute, indent 1
FlagsLine ==
  <<" ", "<", "d", "e", "n", "o", " ", "r", "u", "n", "=", "\"", "f", ".",
    "t", "s", "\"", " ", "a", "=", "\"", "1", "\"", " ", "b", " ", "/", ">">>

\* two tags on one line, indent 2
TwoTagsLine ==
  <<" ", " ", "<", "d", "e", "n", "o", " ", "r", "u", "n", "=", "\"", "f",
    ".", "t", "s", "\"", " ", "b", " ", "/", ">", "<", "d", "e", "n", "o",
    " ", "r", "u", "n", "=", "\"", "g", ".", "t", "s", "\"", " ", "/", ">">>

\* a bundle tag behind a tab
BundleLine ==
  <<"\t", "<", "d", "e", "n", "o", " ", "b", "u", "n", "d", "l", "e", "=",
    "\"", "g", ".", "t", "s", "\"", " ", "c", " ", "/", ">">>

\* a tag inside other tags
NestedLine ==
  <<"<", "h", "t", "m", "l", ">", "<", "s", "c", "r", "i", "p", "t", ">",
    "<", "d", "e", "n", "o", " ", "r", "u", "n", "=", "\"", "x", ".", "t",
    "s", "\"", " ", "/", ">", "<", "/", "s", "c", "r", "i", "p", "t", ">",
    "<", "/", "h", "t", "m", "l", ">">>

\* a tag closed by </deno>, as in the test
CodeLine ==
  <<"<", "c", "o", "d", "e", ">", "<", "d", "e", "n", "o", " ", "r", "u",
    "n", "=", "\"", "f", ".", "t", "s", "\"", " ", "b", " ", "c", ">", "<",
    "/", "d", "e", "n", "o", ">", "<", "/", "c", "o", "d", "e", ">">>

\* a line that a run put in place of a tag
OutputLine ==
  <<"4", "2", ";">>

\* first line of a multi-line tag
OpenLine ==
  <<" ", " ", "<", "d", "e", "n", "o">>

\* attributes on a line of their own
AttrLine ==
  <<" ", " ", " ", " ", "r", "u", "n", "=", "\"", "f", ".", "t", "s", "\"",
    " ", "b">>

\* last line of a multi-line tag
CloseLine ==
  <<" ", " ", "/", ">">>

\* a tag opened with its first attribute
OpenAttrLine ==
  <<" ", "<", "d", "e", "n", "o", " ", "r", "u", "n", "=", "\"", "f", ".",
    "t", "s", "\"">>

\* the last attributes and the close
AttrCloseLine ==
  <<" ", " ", " ", "a", "=", "\"", "1", "\"", " ", "b", " ", "/", ">">>

\* a multi-line tag indented with tabs
TabOpenLine ==
  <<"\t", "<", "d", "e", "n", "o">>

\* an attribute line indented with tabs
TabAttrLine ==
  <<"\t", "\t", "r", "u", "n", "=", "\"", "f", ".", "t", "s", "\"">>

\* the close of the tab-indented tag
TabCloseLine ==
  <<"\t", "/", ">">>

\* a tag with neither run nor bundle, indent 1
NoFileLine ==
  <<" ", "<", "d", "e", "n", "o", " ", "c", " ", "d", "=", "\"", "2", "\"",
    " ", "/", ">">>

\* a tag whose attribute a has a quote that is never closed
UnclosedQuoteLine ==
  <<"<", "d", "e", "n", "o", " ", "r", "u", "n", "=", "\"", "f", ".", "t",
    "s", "\"", " ", "a", "=", "\"", "1", " ", "b", " ", "/", ">">>

\* a tag that is opened and never closed
UnclosedTagLine ==
  <<" ", " ", "<", "d", "e", "n", "o", " ", "r", "u", "n", "=", "\"", "g",
    ".", "t", "s", "\"", " ", "c">>

\* Bound: the number of blocks of a text
MaxBlocks == 2

\* The blocks a text is made of: runs of lines that belong together
Blocks ==
  << <<IndentedLine, EmptyLine>>, <<NestedLine>>, <<FlagsLine>>,
     <<BundleLine>>, <<OpenLine, AttrLine, CloseLine>>, <<OutputLine>>,
     <<TwoTagsLine>>, <<CodeLine>>, <<OpenAttrLine, AttrCloseLine>>,
     <<TabOpenLine, TabAttrLine, TabCloseLine>>, <<NoFileLine>>,
     <<UnclosedQuoteLine>>, <<UnclosedTagLine>>, <<PlainLine>>, <<RunLine>> >>

\* The ways to pick n blocks, kept in the order of Blocks
Picks(n) ==
  {s \in [1..n -> 1..Len(Blocks)] : \A k \in 1..(n - 1) : s[k] < s[k + 1]}

RECURSIVE Flatten(_)
Flatten(blocks) ==
  IF Len(blocks) = 0 THEN <<>> ELSE Head(blocks) \o Flatten(Tail(blocks))

\* The texts denoTag is called with: the lines of up to MaxBlocks blocks
Texts ==
  { Join(Flatten([k \in 1..Len(s) |-> Blocks[s[k]]]), NL) :
      s \in UNION {Picks(n) : n \in 1..MaxBlocks} }

\* What a backend call resolves to: one line, or lines with an empty one
Outputs ==
  { <<"4", "2", ";">>, <<"4", "\n", "\n", "5">> }

\* runOptions as a caller supplies them in options.runOptions
CallerRunOptions == [cmd |-> <<DENO, RUN>>, stdout |-> "inherit"]

\* options?.bundleSources and options?.bundleOptions: the caller's, or undefined
BundleSources(given) == IF given THEN "bundleSources" ELSE "undefined"
BundleOptions(given) == IF given THEN "bundleOptions" ELSE "undefined"

\* The first component of the pair the bundler resolves to
Diagnostics == {"undefined", "diagnostics"}

(***************************************************************************)
(* State of one denoTag(text, options) call                                *)
(***************************************************************************)
VARIABLES
  text,         \* the text argument of the current denoTag call
  custom,       \* whether the caller passes options.runOptions (and with it
                \* options.bundleSources and options.bundleOptions)
  runOptions,   \* the caller's options.runOptions object (cmd is reassigned)
  pc,           \* "start", "exec", "await", "done" or "raised"
  tags,         \* parseResults.tags
  g,            \* position of the outer loop of executeDenoTags (1-based)
  i,            \* position of the inner loop of executeDenoTags (1-based)
  result,       \* the outputs of the current group so far
  results,      \* the Result objects pushed so far
  returned,     \* history: what runDeno returned for each of calls, in order
  settled,      \* history: what the backend gave for each of calls, in order
  awaiting,     \* the backend calls that were started and have not settled
  calls,        \* history: every backend call of the current denoTag call:
                \* what the backend was given, for which group and tag, and
                \* (given) the length runOptions.cmd had before the call
  errors,       \* number of console.error calls of the current denoTag call
  rejected,     \* history: the positions in calls of the calls that failed
  changedText   \* the text denoTag returned

vars == <<text, custom, runOptions, pc, tags, g, i, result, results,
          returned, settled, awaiting, calls, errors, rejected, changedText>>

Init ==
  /\ text \in Texts
  /\ custom \in BOOLEAN
  /\ runOptions = CallerRunOptions
  /\ pc = "start"
  /\ tags = <<>>
  /\ g = 1
  /\ i = 1
  /\ result = <<>>
  /\ results = <<>>
  /\ returned = <<>>
  /\ settled = <<>>
  /\ awaiting = <<>>
  /\ calls = <<>>
  /\ errors = 0
  /\ rejected = <<>>
  /\ changedText = <<>>

\* denoTag up to executeDenoTags: parseDenoTag(text)
ParseText ==
  /\ pc = "start"
  /\ tags' = parseDenoTag(text)
  /\ pc' = "exec"
  /\ UNCHANGED <<text, custom, runOptions, g, i, result, results, returned,
                 settled, awaiting, calls, errors, rejected, changedText>>

\* The attributes runDeno is called with next
CurrentArgs == RunDenoArgs(tags[g].attrs[i])

\* Mutant: the runner is started and executeDenoTags does not wait for it
InvokeRun_noAwait ==
  /\ pc = "exec"
  /\ g <= Len(tags)
  /\ CurrentArgs.action = "run"
  /\ LET opts == IF custom THEN runOptions ELSE DefaultRunOptions
         cmd  == RunCmd(opts.cmd, CurrentArgs)
         call == [kind |-> "run", cmd |-> cmd, stdout |-> opts.stdout,
                  file |-> CurrentArgs.file, group |-> g, occ |-> i,
                  given |-> Len(opts.cmd),
                  sources |-> "", options |-> ""]
     IN  /\ runOptions' = IF custom THEN [runOptions EXCEPT !.cmd = cmd]
                          ELSE runOptions
         /\ calls' = Append(calls, call)
         /\ awaiting' = Append(awaiting, call)
  /\ pc' = "exec"
  /\ UNCHANGED <<text, custom, tags, g, i, result, results, returned,
                 settled, errors, rejected, changedText>>

\* runDeno, case "run", up to the await: the runner is called with runOptions
InvokeRun ==
  /\ pc = "exec"
  /\ g <= Len(tags)
  /\ CurrentArgs.action = "run"
  /\ LET opts == IF custom THEN runOptions ELSE DefaultRunOptions
         cmd  == RunCmd(opts.cmd, CurrentArgs)
         call == [kind |-> "run", cmd |-> cmd, stdout |-> opts.stdout,
                  file |-> CurrentArgs.file, group |-> g, occ |-> i,
                  given |-> Len(opts.cmd),
                  sources |-> "", options |-> ""]
     IN  /\ runOptions' = IF custom THEN [runOptions EXCEPT !.cmd = cmd]
                          ELSE runOptions
         /\ calls' = Append(calls, call)
         /\ awaiting' = Append(awaiting, call)
  /\ pc' = "await"
  /\ UNCHANGED <<text, custom, tags, g, i, result, results, returned,
                 settled, errors, rejected, changedText>>

\* runDeno, case "bundle", up to the await: the bundler is called with file
InvokeBundle ==
  /\ pc = "exec"
  /\ g <= Len(tags)
  /\ CurrentArgs.action = "bundle"
  /\ LET call == [kind |-> "bundle", cmd |-> <<>>, stdout |-> "",
                  file |-> CurrentArgs.file, group |-> g, occ |-> i,
                  given |-> 0,
                  sources |-> BundleSources(custom),
                  options |-> BundleOptions(custom)]
     IN  /\ calls' = Append(calls, call)
         /\ awaiting' = Append(awaiting, call)
  /\ pc' = "await"
  /\ UNCHANGED <<text, custom, runOptions, tags, g, i, result, results,
                 returned, settled, errors, rejected, changedText>>

\* Mutant: the output is put in front of the group's earlier outputs
PushOutput_unshift(out) ==
  LET result1 == <<out>> \o result
  IN  /\ returned' = Append(returned, out)
      /\ IF i < Len(tags[g].attrs)
        THEN /\ result' = result1
             /\ i' = i + 1
             /\ UNCHANGED <<g, results>>
        ELSE /\ results' = Append(results,
                             [from |-> tags[g].lineOpened,
                              to |-> tags[g].lineClosed,
                              contents |-> Contents(result1, tags[g].indent)])
             /\ result' = <<>>
             /\ i' = 1
             /\ g' = g + 1

\* result.push(await runDeno(...)) and the loop code that follows it, up to
\* the next runDeno call: the end of the inner loop pushes the group's Result
PushOutput(out) ==
  LET result1 == Append(result, out)
  IN  /\ returned' = Append(returned, out)
      /\ IF i < Len(tags[g].attrs)
        THEN /\ result' = result1
             /\ i' = i + 1
             /\ UNCHANGED <<g, results>>
        ELSE /\ results' = Append(results,
                             [from |-> tags[g].lineOpened,
                              to |-> tags[g].lineClosed,
                              contents |-> Contents(result1, tags[g].indent)])
             /\ result' = <<>>
             /\ i' = 1
             /\ g' = g + 1

\* result = new TextDecoder("utf-8").decode(runOutput)
RunResult(runOutput) == runOutput

\* result = bundleOutput[1]
BundleResult(bundleOutput) == bundleOutput[2]

\* The backend call settles with an output: the bytes of the run, or the
\* pair [diagnostics, output] of the bundler
Resolve ==
  /\ pc = "await"
  /\ \/ /\ awaiting[1].kind = "run"
        /\ \E runOutput \in Outputs :
             /\ PushOutput(RunResult(runOutput))
             /\ settled' = Append(settled, [ok |-> TRUE, diag |-> "",
                                            out |-> runOutput])
     \/ /\ awaiting[1].kind = "bundle"
        /\ \E bundleOutput \in Diagnostics \X Outputs :
             /\ PushOutput(BundleResult(bundleOutput))
             /\ settled' = Append(settled, [ok |-> TRUE,
                                            diag |-> bundleOutput[1],
                                            out |-> bundleOutput[2]])
  /\ awaiting' = <<>>
  /\ pc' = "exec"
  /\ UNCHANGED <<text, custom, runOptions, tags, calls, errors, rejected,
                 changedText>>

\* The runner throws or its output() rejects: catch, console.error, result ""
RejectRun ==
  /\ pc = "await"
  /\ awaiting[1].kind = "run"
  /\ errors' = errors + 1
  /\ rejected' = Append(rejected, Len(calls))
  /\ settled' = Append(settled, [ok |-> FALSE, diag |-> "", out |-> <<>>])
  /\ PushOutput(<<>>)
  /\ awaiting' = <<>>
  /\ pc' = "exec"
  /\ UNCHANGED <<text, custom, runOptions, tags, calls, changedText>>

\* The bundler throws or rejects: nothing catches it, denoTag rejects
RejectBundle ==
  /\ pc = "await"
  /\ awaiting[1].kind = "bundle"
  /\ rejected' = Append(rejected, Len(calls))
  /\ settled' = Append(settled, [ok |-> FALSE, diag |-> "", out |-> <<>>])
  /\ awaiting' = <<>>
  /\ pc' = "raised"
  /\ UNCHANGED <<text, custom, runOptions, tags, g, i, result, results,
                 returned, calls, errors, changedText>>

\* The outer loop of executeDenoTags is over: replaceTagsWithResults, return
Return ==
  /\ pc = "exec"
  /\ g > Len(tags)
  /\ changedText' = replaceTagsWithResults(text, results)
  /\ pc' = "done"
  /\ UNCHANGED <<text, custom, runOptions, tags, g, i, result, results,
                 returned, settled, awaiting, calls, errors, rejected>>

Next ==
  \/ ParseText
  \/ InvokeRun
  \/ InvokeBundle
  \/ Resolve
  \/ RejectRun
  \/ RejectBundle
  \/ Return

Spec == Init /\ [][Next]_vars

\* denoTag(text, { runner, bundler }), as the tests call it: the caller gives
\* the backends and no runOptions, bundleSources or bundleOptions
InitDefault == Init /\ ~custom

SpecDefault == InitDefault /\ [][Next]_vars

TypeOK ==
  /\ pc \in {"start", "exec", "await", "done", "raised"}
  /\ Len(awaiting) <= 1

(***************************************************************************)
(* What the properties below say about the text, stated without the        *)
(* parser: the lines of the text, the joined lines of a group, the i-th    *)
(* "<deno" of a group                                                      *)
(***************************************************************************)
TextLines == Split(text, NL)

\* The calls made for group gr, and what runDeno returned for them, in order
RECURSIVE CallsOf(_, _)
CallsOf(gr, c) ==
  IF c > Len(calls) THEN <<>>
  ELSE (IF calls[c].group = gr THEN <<c>> ELSE <<>>) \o CallsOf(gr, c + 1)

\* The lines from..to of the text (0-based, inclusive), joined by one space
GroupText(from, to) == Join(SubSeq(TextLines, from + 1, to + 1), SP)

\* The text that follows the occ-th "<deno" of the group, up to the next one
TagText(from, to, occ) == Split(GroupText(from, to), OpenMarker)[occ + 1]

Range(f) == {f[x] : x \in DOMAIN f}

\* The text lines of a call's tag, split at single spaces, up to the first ">"
CallTokens(c) ==
  LET t == tags[calls[c].group]
      s == TagText(t.lineOpened, t.lineClosed, calls[c].occ)
      e == IndexOf(s, GT)
  IN  Split(IF e = -1 THEN Take(s, Len(s) - 1) ELSE Take(s, e), SP)

\* The part of cmd that the call appended after the file
CallFlags(c) == SubSeq(calls[c].cmd, calls[c].given + 2, Len(calls[c].cmd))

(***************************************************************************)
(* C1: for a text with no "<deno" substring, denoTag returns the text      *)
(* unchanged and calls neither backend; a text that is the output of an    *)
(* earlier call and has no "<deno" left is such a text.                    *)
(***************************************************************************)
C1_NoTagIdentity ==
  ~Includes(text, OpenMarker) =>
    /\ calls = <<>>
    /\ pc \in {"start", "exec", "done"}
    /\ pc = "done" => changedText = text

\* denoTag returned for a text of several lines, one of them empty, that has
\* no tag and holds what an earlier call put in place of a tag
C1_Witness ==
  /\ pc = "done"
  /\ ~Includes(text, OpenMarker)
  /\ text = Join(<<IndentedLine, EmptyLine, OutputLine>>, NL)
  /\ changedText = text

(***************************************************************************)
(* C2: every call of the run backend is given the configured base command  *)
(* (the default one, or the caller's options.runOptions.cmd), then the     *)
(* tag's file, then the tag's other attributes as key=value; the default   *)
(* configuration has stdout "piped".                                       *)
(***************************************************************************)
ConfiguredRunOptions == IF custom THEN CallerRunOptions ELSE DefaultRunOptions

C2_RunCommand ==
  \A c \in 1..Len(calls) :
    calls[c].kind = "run" =>
      LET a == RunDenoArgs(tags[calls[c].group].attrs[calls[c].occ])
      IN  /\ calls[c].cmd = ConfiguredRunOptions.cmd \o <<a.file>> \o a.flags
          /\ calls[c].stdout = ConfiguredRunOptions.stdout
          /\ ~custom => /\ calls[c].stdout = "piped"
                        /\ SubSeq(calls[c].cmd, 1, 4) =
                             << <<"d", "e", "n", "o">>, <<"r", "u", "n">>,
                                <<"-", "-", "a", "l", "l", "o", "w", "-",
                                  "r", "e", "a", "d">>,
                                <<"-", "-", "a", "l", "l", "o", "w", "-",
                                  "r", "u", "n">> >>

(***************************************************************************)
(* C3: a boolean attribute of a run tag (a token without "=", not ending   *)
(* in a quote, met while no key is pending) whose name is not run or       *)
(* bundle reaches the run backend as the flag name="true", and the flags   *)
(* are in the order in which their names are first met in the tag.         *)
(***************************************************************************)
Skipped(tok) == tok = <<>> \/ tok = <<"/">>

\* The name a token gives: the text before its first "=", or all of it
KeyPart(tok) == IF Includes(tok, EQ) THEN Take(tok, IndexOf(tok, EQ)) ELSE tok

\* The text between the first and the second "=" of a token, or all of it
ValuePart(tok) == IF Includes(tok, EQ) THEN Split(tok, EQ)[2] ELSE tok

\* A key is pending at token j: the last token with "=" before j named a
\* key, and no token from there up to j closed the value with a quote
PendingKey(toks, j) ==
  \E k \in 1..(j - 1) :
    /\ ~Skipped(toks[k]) /\ Includes(toks[k], EQ)
    /\ \A m \in (k + 1)..(j - 1) : Skipped(toks[m]) \/ ~Includes(toks[m], EQ)
    /\ KeyPart(toks[k]) # <<>>
    /\ \A m \in k..(j - 1) :
         Skipped(toks[m]) \/ ~EndsWith(ValuePart(toks[m]), QUOTE)

BooleanToken(toks, j) ==
  /\ ~Skipped(toks[j])
  /\ ~Includes(toks[j], EQ)
  /\ ~EndsWith(toks[j], QUOTE)
  /\ ~PendingKey(toks, j)
  /\ toks[j] \notin {RunAttr, BundleAttr}

\* No later token of the tag gives the same name again
NamedOnce(toks, j) ==
  \A m \in 1..Len(toks) :
    (m # j /\ ~Skipped(toks[m])) => KeyPart(toks[m]) # KeyPart(toks[j])

\* The first token that gives the name of a flag
FirstNamedAt(toks, flag) ==
  LET name == Take(flag, IndexOf(flag, EQ))
      at   == {j \in 1..Len(toks) : ~Skipped(toks[j]) /\ KeyPart(toks[j]) = name}
  IN  IF at = {} THEN 0 ELSE CHOOSE j \in at : \A m \in at : j <= m

C3_BooleanFlags ==
  \A c \in 1..Len(calls) :
    calls[c].kind = "run" =>
      LET toks  == CallTokens(c)
          flags == CallFlags(c)
      IN  /\ \A j \in 1..Len(toks) :
               (BooleanToken(toks, j) /\ NamedOnce(toks, j)) =>
                 \E f \in 1..Len(flags) :
                   /\ flags[f] = toks[j] \o <<"=", "\"", "t", "r", "u", "e", "\"">>
                   /\ FirstNamedAt(toks, flags[f]) = j
          /\ \A f1, f2 \in 1..Len(flags) :
               f1 < f2 =>
                 FirstNamedAt(toks, flags[f1]) < FirstNamedAt(toks, flags[f2])

\* The run backend was called for a tag with a valued attribute before a
\* boolean one, and for a tag with two boolean attributes
C3_Witness ==
  \E c1, c2 \in 1..Len(calls) :
    /\ calls[c1].kind = "run" /\ calls[c2].kind = "run"
    /\ CallFlags(c1) = << <<"a", "=", "\"", "1", "\"">>,
                          <<"b", "=", "\"", "t", "r", "u", "e", "\"">> >>
    /\ CallFlags(c2) = << <<"b", "=", "\"", "t", "r", "u", "e", "\"">>,
                          <<"c", "=", "\"", "t", "r", "u", "e", "\"">> >>

(***************************************************************************)
(* What a group's place in the returned text must hold, stated from the    *)
(* text and from what the backends returned                                *)
(***************************************************************************)

\* The number of leading characters of a line that are a space or a tab
Lead(line) ==
  CHOOSE k \in 0..Len(line) :
    /\ \A j \in 1..k : line[j] \in {" ", "\t"}
    /\ k < Len(line) => line[k + 1] \notin {" ", "\t"}

\* What runDeno returned for the tags of group gr, in the order of the calls
RawOf(gr) ==
  LET cs == CallsOf(gr, 1) IN [m \in 1..Len(cs) |-> returned[cs[m]]]

\* The lines of the outputs of group gr, joined by line breaks
OutLinesOf(gr) == Split(Join(RawOf(gr), NL), NL)

\* The lines that must stand for group gr: each output line behind as many
\* spaces as the group's first line has leading white space
ExpectedLines(gr) ==
  LET k   == Lead(TextLines[results[gr].from + 1])
      out == OutLinesOf(gr)
  IN  [j \in 1..Len(out) |-> [n \in 1..k |-> " "] \o out[j]]

\* The number of lines between from and to, both included
RECURSIVE SpanUpTo(_)
SpanUpTo(gr) ==
  IF gr = 0 THEN 0
  ELSE (results[gr].to - results[gr].from + 1) + SpanUpTo(gr - 1)

RECURSIVE OutLinesUpTo(_)
OutLinesUpTo(gr) ==
  IF gr = 0 THEN 0 ELSE Len(OutLinesOf(gr)) + OutLinesUpTo(gr - 1)

\* The number of lines of the returned text that precede those of group gr
Offset(gr) ==
  results[gr].from - SpanUpTo(gr - 1) + OutLinesUpTo(gr - 1)

(***************************************************************************)
(* C4: a tag written over several lines gets the attributes of the same    *)
(* tag written on one line (each line without its indentation, the lines   *)
(* separated by one space), and in the returned text its lines are gone    *)
(* and the indented output stands in their place.                          *)
(***************************************************************************)
TrimLeft(line) == Drop(line, Lead(line))

\* The lines from..to of the text written as one line
SingleLine(from, to) ==
  Join([k \in 1..(to - from + 1) |-> TrimLeft(TextLines[from + k])], SP)

C4_MultiLineAsSingleLine ==
  /\ \A gr \in 1..Len(tags) :
       tags[gr].lineClosed > tags[gr].lineOpened =>
         tags[gr].attrs =
           parseDenoTagArgs(SingleLine(tags[gr].lineOpened, tags[gr].lineClosed))
  /\ (pc = "done" /\ Len(results) = 1) =>
       changedText =
         Join(SubSeq(TextLines, 1, results[1].from)
                \o ExpectedLines(1)
                \o SubSeq(TextLines, results[1].to + 2, Len(TextLines)), NL)

(***************************************************************************)
(* C5: when the first line of a group has k leading white-space            *)
(* characters, every line of the group's joined output, the empty ones     *)
(* too, stands in the returned text behind exactly k spaces, whole.        *)
(***************************************************************************)
C5_OutputIndented ==
  pc = "done" =>
    LET final == Split(changedText, NL)
    IN  \A gr \in 1..Len(results) :
          LET k   == Lead(TextLines[results[gr].from + 1])
              out == OutLinesOf(gr)
          IN  \A j \in 1..Len(out) :
                /\ Offset(gr) + j <= Len(final)
                /\ final[Offset(gr) + j] = [n \in 1..k |-> " "] \o out[j]

\* denoTag returned for a text whose second group is behind a tab and whose
\* output has an empty line
C5_Witness ==
  /\ pc = "done"
  /\ Len(results) = 2
  /\ Lead(TextLines[results[2].from + 1]) = 1
  /\ TextLines[results[2].from + 1][1] = "\t"
  /\ OutLinesOf(2) = << <<"4">>, <<>>, <<"5">> >>
  /\ Len(OutLinesOf(1)) = 3

(***************************************************************************)
(* C6: for a group with two or more tags the backend is called once per    *)
(* tag, in the order of the tags in the text, and the group's contents is  *)
(* the outputs in that order, joined by line breaks and then indented.     *)
(***************************************************************************)
\* The number of places where p occurs in s
Occurrences(s, p) == Cardinality({k \in 0..Len(s) : MatchAt(s, p, k)})

\* The file named by the run or bundle attribute in the text of a tag
NamesFile(tagText, file) ==
  \E tok \in {t \in Range(Split(tagText, SP)) : Includes(t, EQ)} :
    /\ KeyPart(tok) \in {RunAttr, BundleAttr}
    /\ file = SubSeq(ValuePart(tok), 2, Len(ValuePart(tok)) - 1)

C6_OncePerTagInOrder ==
  \A gr \in 1..Len(results) :
    LET from == results[gr].from
        to   == results[gr].to
        n    == Occurrences(GroupText(from, to), OpenMarker)
        cs   == CallsOf(gr, 1)
    IN  n >= 2 =>
          /\ Len(cs) = n
          /\ \A m \in 1..n :
               /\ calls[cs[m]].occ = m
               /\ m > 1 => cs[m] = cs[m - 1] + 1
               /\ NamesFile(TagText(from, to, m), calls[cs[m]].file)
          /\ results[gr].contents = Join(ExpectedLines(gr), NL)

\* A Result was pushed for a group of two tags that returned different outputs
C6_Witness ==
  \E gr \in 1..Len(results) :
    /\ Len(CallsOf(gr, 1)) = 2
    /\ RawOf(gr) = << <<"4", "2", ";">>, <<"4", "\n", "\n", "5">> >>
    /\ calls[CallsOf(gr, 1)[1]].file = <<"f", ".", "t", "s">>
    /\ calls[CallsOf(gr, 1)[2]].file = <<"g", ".", "t", "s">>

(***************************************************************************)
(* C7: when the run backend fails for a tag, the failure is logged, the    *)
(* tag's output is the empty string, the call is not made again, every     *)
(* later tag still gets its backend call and denoTag returns a text.       *)
(***************************************************************************)
\* The number of tags of all groups
RECURSIVE TagsUpTo(_)
TagsUpTo(gr) ==
  IF gr = 0 THEN 0 ELSE Len(tags[gr].attrs) + TagsUpTo(gr - 1)

RunFailed(c) == c \in Range(rejected) /\ calls[c].kind = "run"

C7_RunFailureContained ==
  \A c \in 1..Len(calls) :
    RunFailed(c) =>
      /\ errors >= 1
      /\ returned[c] = <<>>
      /\ \A d \in 1..Len(calls) :
           (calls[d].group = calls[c].group /\ calls[d].occ = calls[c].occ)
             => d = c
      /\ pc # "raised"
      /\ pc = "done" => Len(calls) = TagsUpTo(Len(tags))

(***************************************************************************)
(* C8: a failing backend call, of the run backend or of the bundle         *)
(* backend, is caught where it happens: the tags after it still get their  *)
(* backend calls and the transformation completes.                         *)
(***************************************************************************)
C8_FailureCaughtLocally ==
  rejected # <<>> =>
    /\ pc # "raised"
    /\ pc = "done" => Len(calls) = TagsUpTo(Len(tags))

(***************************************************************************)
(* C9 as claimed: lines of the returned text = lines of the text minus the *)
(* sum of (to - from) plus the sum of the lines of the contents.           *)
(***************************************************************************)
RECURSIVE ToMinusFromUpTo(_)
ToMinusFromUpTo(gr) ==
  IF gr = 0 THEN 0
  ELSE (results[gr].to - results[gr].from) + ToMinusFromUpTo(gr - 1)

RECURSIVE ContentsLinesUpTo(_)
ContentsLinesUpTo(gr) ==
  IF gr = 0 THEN 0
  ELSE Len(Split(results[gr].contents, NL)) + ContentsLinesUpTo(gr - 1)

C9_LineCountAsClaimed ==
  pc = "done" =>
    Len(Split(changedText, NL)) =
      Len(TextLines) - ToMinusFromUpTo(Len(results))
        + ContentsLinesUpTo(Len(results))

(***************************************************************************)
(* C9 amended: lines of the returned text = lines of the text minus the    *)
(* sum of (to - from + 1), the number of lines of each group, plus the sum *)
(* of the lines of the contents.                                           *)
(***************************************************************************)
C9_LineCount ==
  pc = "done" =>
    Len(Split(changedText, NL)) =
      Len(TextLines) - (ToMinusFromUpTo(Len(results)) + Len(results))
        + ContentsLinesUpTo(Len(results))

\* denoTag returned for a text with a group of three lines and a group of one
\* line, one replaced by three lines and one by a single line
C9_Witness ==
  /\ pc = "done"
  /\ Len(results) = 2
  /\ \E gr \in 1..2 : results[gr].to - results[gr].from = 2
  /\ \E gr \in 1..2 : results[gr].to = results[gr].from
  /\ \E gr \in 1..2 : Len(Split(results[gr].contents, NL)) = 3
  /\ \E gr \in 1..2 : Len(Split(results[gr].contents, NL)) = 1

(***************************************************************************)
(* C10: a tag is found by its "<deno" anywhere in a line, also inside      *)
(* other tags and when closed by "</deno>", and the whole line is          *)
(* replaced: a text of one line that holds tags becomes the indented       *)
(* output alone; `<html><script><deno run="x.ts" /></script></html>` with  *)
(* a backend that returns `42;` becomes `42;`.                             *)
(***************************************************************************)
C10_TagLineReplaced ==
  (/\ pc = "done"
   /\ Len(TextLines) = 1
   /\ Occurrences(text, OpenMarker) > 0
   /\ Occurrences(text, OpenMarker) =
        Occurrences(text, SelfClose) + Occurrences(text, CloseMarker))
  => /\ Len(results) = 1
     /\ Len(calls) = Occurrences(text, OpenMarker)
     /\ changedText = Join(ExpectedLines(1), NL)
     /\ ~Includes(changedText, OpenMarker)
     /\ (text = NestedLine /\ returned = << <<"4", "2", ";">> >>)
          => changedText = <<"4", "2", ";">>

\* denoTag returned `42;` for the one-line text with the tag inside a script
C10_Witness ==
  /\ pc = "done"
  /\ text = NestedLine
  /\ returned = << <<"4", "2", ";">> >>
  /\ changedText = <<"4", "2", ";">>

(***************************************************************************)
(* C11: a tag with a bundle attribute (and no run attribute) gets one call *)
(* of the bundle backend and none of the run backend; the call is given    *)
(* the attribute's value without its quotes, the caller's sources and      *)
(* options, and none of the tag's other attributes; the tag's output is    *)
(* the second component of the pair, whatever the first one is.            *)
(***************************************************************************)
\* Some token of the tag names the attribute
HasAttr(toks, name) ==
  \E j \in 1..Len(toks) : ~Skipped(toks[j]) /\ KeyPart(toks[j]) = name

C11_BundleCall ==
  \A c \in 1..Len(calls) :
    LET toks == CallTokens(c)
    IN  (HasAttr(toks, <<"b", "u", "n", "d", "l", "e">>)
           /\ ~HasAttr(toks, <<"r", "u", "n">>)) =>
          /\ calls[c].kind = "bundle"
          /\ \E j \in 1..Len(toks) :
               /\ KeyPart(toks[j]) = <<"b", "u", "n", "d", "l", "e">>
               /\ ValuePart(toks[j]) = <<"\"">> \o calls[c].file \o <<"\"">>
          /\ calls[c].cmd = <<>>
          /\ calls[c].sources = (IF custom THEN "bundleSources" ELSE "undefined")
          /\ calls[c].options = (IF custom THEN "bundleOptions" ELSE "undefined")
          /\ \A d \in 1..Len(calls) :
               (calls[d].group = calls[c].group /\ calls[d].occ = calls[c].occ)
                 => d = c
          /\ (c <= Len(settled) /\ settled[c].ok) =>
               /\ c <= Len(returned)
               /\ returned[c] = settled[c].out

\* The bundler was called for the tag `<deno bundle="g.ts" c />`, resolved to
\* a pair with diagnostics, and the tag's output is the pair's output text
C11_Witness ==
  \E c \in 1..Len(settled) :
    /\ calls[c].kind = "bundle"
    /\ calls[c].file = <<"g", ".", "t", "s">>
    /\ HasAttr(CallTokens(c), <<"c">>)
    /\ settled[c].ok
    /\ settled[c].diag = "diagnostics"
    /\ returned[c] = <<"4", "\n", "\n", "5">>

(***************************************************************************)
(* C12: at most one backend call is outstanding; a call is started only    *)
(* when every earlier call has settled; the calls are in the order of the  *)
(* tags in the text, and the k-th Result pushed is that of the k-th group. *)
(***************************************************************************)
C12_OneCallAtATime ==
  /\ Len(awaiting) <= 1
  /\ Len(settled) = Len(calls) - Len(awaiting)
  /\ awaiting # <<>> => awaiting[1] = calls[Len(calls)]
  /\ \A c, d \in 1..Len(calls) :
       c < d =>
         \/ calls[c].group < calls[d].group
         \/ calls[c].group = calls[d].group /\ calls[c].occ < calls[d].occ
  /\ Len(results) <= Len(tags)
  /\ \A k \in 1..Len(results) :
       /\ results[k].from = tags[k].lineOpened
       /\ k > 1 => results[k - 1].to < results[k].from
       /\ \A c \in 1..Len(calls) : calls[c].group = k => c <= Len(settled)

\* The third call is outstanding: the two calls of the first group settled
\* and its Result was pushed before the call of the second group started
C12_Witness ==
  /\ Len(calls) = 3
  /\ Len(awaiting) = 1
  /\ Len(settled) = 2
  /\ Len(results) = 1
  /\ calls[3].group = 2

(***************************************************************************)
(* C13: a tag with neither a run nor a bundle attribute gets one call of   *)
(* the run backend and none of the bundle backend; the call is given the   *)
(* configured base command, then the empty string, then the tag's flags.   *)
(***************************************************************************)
C13_NoFileRun ==
  \A c \in 1..Len(calls) :
    LET toks == CallTokens(c)
    IN  (~HasAttr(toks, <<"r", "u", "n">>)
           /\ ~HasAttr(toks, <<"b", "u", "n", "d", "l", "e">>)) =>
          /\ calls[c].kind = "run"
          /\ calls[c].file = <<>>
          /\ calls[c].cmd =
               ConfiguredRunOptions.cmd \o << <<>> >>
                 \o RunDenoArgs(tags[calls[c].group].attrs[calls[c].occ]).flags
          /\ \A d \in 1..Len(calls) :
               (calls[d].group = calls[c].group /\ calls[d].occ = calls[c].occ)
                 => d = c

(***************************************************************************)
(* C14: the returned text is the lines of the text outside every group,    *)
(* each once and in their order; no line of a group; and the contents of   *)
(* each group once, where the group's first line was.                      *)
(***************************************************************************)
\* The lines of the text after group gr - 1 and before group gr (1-based
\* positions in TextLines; group Len(results) + 1 stands for the end)
Between(gr) ==
  SubSeq(TextLines,
         IF gr = 1 THEN 1 ELSE results[gr - 1].to + 2,
         IF gr > Len(results) THEN Len(TextLines) ELSE results[gr].from)

\* The lines before group gr + 1: kept lines and contents in turn
RECURSIVE Framed(_)
Framed(gr) ==
  IF gr = 0 THEN <<>>
  ELSE Framed(gr - 1) \o Between(gr) \o <<results[gr].contents>>

C14_OtherLinesKept ==
  pc = "done" =>
    changedText =
      Join(Framed(Len(results)) \o Between(Len(results) + 1), NL)

\* denoTag returned for a text with two lines, one of them empty, before a
\* group of three lines that is replaced by an output of three lines
C14_Witness ==
  /\ pc = "done"
  /\ Len(results) = 1
  /\ results[1].from = 2
  /\ results[1].to = 4
  /\ Len(TextLines) = 5
  /\ Len(Split(results[1].contents, NL)) = 3
  /\ SubSeq(Split(changedText, NL), 1, 2) = <<IndentedLine, EmptyLine>>
  /\ Len(Split(changedText, NL)) = 5
  /\ changedText # text

(***************************************************************************)
(* C15: every recorded group has 0 <= lineOpened <= lineClosed < number of *)
(* lines; the groups are in increasing line order and no two share a line; *)
(* the k-th Result has the from and to of the k-th group, and when         *)
(* executeDenoTags returns there is exactly one Result per group.          *)
(***************************************************************************)
C15_GroupsInOrder ==
  /\ \A gr \in 1..Len(tags) :
       /\ 0 <= tags[gr].lineOpened
       /\ tags[gr].lineOpened <= tags[gr].lineClosed
       /\ tags[gr].lineClosed < Len(TextLines)
  /\ \A g1, g2 \in 1..Len(tags) :
       g1 < g2 => tags[g1].lineClosed < tags[g2].lineOpened
  /\ Len(results) <= Len(tags)
  /\ \A k \in 1..Len(results) :
       /\ results[k].from = tags[k].lineOpened
       /\ results[k].to = tags[k].lineClosed
  /\ pc = "done" => Len(results) = Len(tags)

\* executeDenoTags returned for a text with a group of one line after a
\* group of three lines
C15_Witness ==
  /\ pc = "done"
  /\ Len(tags) = 2
  /\ Len(results) = 2
  /\ tags[1].lineClosed = tags[1].lineOpened + 2
  /\ tags[2].lineOpened = tags[2].lineClosed
  /\ tags[2].lineOpened = tags[1].lineClosed + 1

(***************************************************************************)
(* C16: an attribute whose quoted value is never closed (from its token on *)
(* no token of the tag ends with a quote) is not in the tag's attributes   *)
(* and is no flag of the tag's call; parsing raises nothing: the tag still *)
(* has its attributes and still gets its backend call.                     *)
(***************************************************************************)
\* The tokens of the occ-th tag of group gr, as CallTokens gives for a call
TokensOf(gr, occ) ==
  LET s == TagText(tags[gr].lineOpened, tags[gr].lineClosed, occ)
      e == IndexOf(s, GT)
  IN  Split(IF e = -1 THEN Take(s, Len(s) - 1) ELSE Take(s, e), SP)

\* Token j names a key and opens a value that no token from j on closes
Unterminated(toks, j) ==
  /\ ~Skipped(toks[j])
  /\ Includes(toks[j], EQ)
  /\ KeyPart(toks[j]) # <<>>
  /\ \A m \in j..Len(toks) :
       Skipped(toks[m]) \/ ~EndsWith(ValuePart(toks[m]), <<"\"">>)

C16_UnterminatedDropped ==
  \A gr \in 1..Len(tags) :
    /\ Len(tags[gr].attrs) =
         Occurrences(GroupText(tags[gr].lineOpened, tags[gr].lineClosed),
                     <<"<", "d", "e", "n", "o">>)
    /\ \A occ \in 1..Len(tags[gr].attrs) :
         LET toks == TokensOf(gr, occ)
         IN  \A j \in 1..Len(toks) :
               (Unterminated(toks, j) /\ NamedOnce(toks, j)) =>
                 /\ \A e \in 1..Len(tags[gr].attrs[occ]) :
                      tags[gr].attrs[occ][e][1] # KeyPart(toks[j])
                 /\ \A c \in 1..Len(calls) :
                      (calls[c].group = gr /\ calls[c].occ = occ) =>
                        \A f \in 1..Len(CallFlags(c)) :
                          ~MatchAt(CallFlags(c)[f], KeyPart(toks[j]) \o <<"=">>, 0)
                 /\ pc = "done" =>
                      \E c \in 1..Len(calls) :
                        calls[c].group = gr /\ calls[c].occ = occ

\* denoTag returned for the tag `<deno run="f.ts" a="1 b />`: the runner was
\* given the file and neither a nor b
C16_Witness ==
  /\ pc = "done"
  /\ ~custom
  /\ \E c \in 1..Len(calls) :
       LET toks == CallTokens(c)
       IN  /\ \E j \in 1..Len(toks) :
                Unterminated(toks, j) /\ toks[j] = <<"a", "=", "\"", "1">>
           /\ calls[c].kind = "run"
           /\ calls[c].cmd[Len(calls[c].cmd)] = <<"f", ".", "t", "s">>
           /\ c <= Len(settled) /\ settled[c].ok

(***************************************************************************)
(* C17: when a line opens a group and neither it nor any later line of the *)
(* text meets the close condition, no group is recorded from that line on, *)
(* no backend is called for the tags from that line on, and the lines from *)
(* that line to the end of the text are the last lines of the returned     *)
(* text, unchanged.                                                        *)
(***************************************************************************)
\* (1 if the carry is active, else 0) + opened on the line = closed on it
CloseCondition(carry, line) ==
  (IF carry THEN 1 ELSE 0) + Occurrences(line, <<"<", "d", "e", "n", "o">>)
    = Occurrences(line, <<"/", ">">>)
        + Occurrences(line, <<"<", "/", "d", "e", "n", "o", ">">>)

\* The multi-line carry is active when line l (0-based) of lines is reached
RECURSIVE CarryAt(_, _)
CarryAt(lines, l) ==
  IF l = 0 THEN FALSE
  ELSE LET before == CarryAt(lines, l - 1)
       IN  (before \/ Includes(lines[l], <<"<", "d", "e", "n", "o">>))
             /\ ~CloseCondition(before, lines[l])

\* Line s (0-based) of lines opens a group that no line closes
OpensUnclosed(lines, s) ==
  /\ Includes(lines[s + 1], <<"<", "d", "e", "n", "o">>)
  /\ ~CloseCondition(FALSE, lines[s + 1])
  /\ \A l \in (s + 1)..(Len(lines) - 1) : ~CloseCondition(TRUE, lines[l + 1])
  /\ ~CarryAt(lines, s)

C17_UnclosedGroupKept ==
  LET lines == TextLines
  IN  \A s \in 0..(Len(lines) - 1) :
        OpensUnclosed(lines, s) =>
          /\ \A gr \in 1..Len(tags) : tags[gr].lineClosed < s
          /\ Len(calls) <=
               Occurrences(Join(SubSeq(lines, 1, s), NL),
                           <<"<", "d", "e", "n", "o">>)
          /\ pc = "done" =>
               LET final == Split(changedText, NL)
                   n     == Len(lines) - s
               IN  /\ Len(final) >= n
                   /\ SubSeq(final, Len(final) - n + 1, Len(final)) =
                        SubSeq(lines, s + 1, Len(lines))

\* denoTag returned for a text whose first line opens a group that the
\* second line, a closed tag, does not close: no call, the text as it was
C17_Witness ==
  /\ pc = "done"
  /\ Len(TextLines) = 2
  /\ OpensUnclosed(TextLines, 0)
  /\ Includes(TextLines[2], <<"<", "d", "e", "n", "o">>)
  /\ CloseCondition(FALSE, TextLines[2])
  /\ tags = <<>>
  /\ calls = <<>>
  /\ changedText = text

====
